---------------------------- MODULE Spec2Model ----------------------------
(***************************************************************************)
(* A model of py3status/modules/cmus.py: the cmus module of py3status.     *)
(*                                                                         *)
(* Python strings are sequences of one-character strings, so that          *)
(* partition, splitlines, lstrip, int() and the `in` substring test are    *)
(* computed character by character as Python computes them.  A Python dict *)
(* is a function from its keys; the order in which a dict is iterated is   *)
(* chosen by the action that iterates it.                                  *)
(***************************************************************************)
EXTENDS Integers, Sequences, FiniteSets, TLC

(***************************************************************************)
(* Bounds of the model.                                                    *)
(***************************************************************************)
\* the largest number of lines in a text returned by `cmus-remote --query`
MaxLines == 2
\* a button binding is None or one of 1..MaxButton
MaxButton == 1
\* _seconds_to_time is applied to every integer 0..MaxSeconds
MaxSeconds == 36610

(***************************************************************************)
(* Python values: str, bool, int and None.                                 *)
(***************************************************************************)
PyStr(s) == [t |-> "str", s |-> s, b |-> FALSE, n |-> 0]
PyBool(b) == [t |-> "bool", s |-> <<>>, b |-> b, n |-> 0]
PyInt(n) == [t |-> "int", s |-> <<>>, b |-> FALSE, n |-> n]
PyNone == [t |-> "None", s |-> <<>>, b |-> FALSE, n |-> 0]

\* Python truthiness, as `or` uses it
Truthy(v) ==
    CASE v.t = "str" -> v.s # <<>>
      [] v.t = "bool" -> v.b
      [] v.t = "int" -> v.n # 0
      [] OTHER -> FALSE

\* a or b
PyOr(a, b) == IF Truthy(a) THEN a ELSE b

(***************************************************************************)
(* The string literals of the source.                                      *)
(***************************************************************************)
S_set == <<"s", "e", "t">>
S_tag == <<"t", "a", "g">>
S_duration == <<"d", "u", "r", "a", "t", "i", "o", "n">>
S_position == <<"p", "o", "s", "i", "t", "i", "o", "n">>
S_time == <<"t", "i", "m", "e">>
S_true == <<"t", "r", "u", "e">>
S_enabled == <<"e", "n", "a", "b", "l", "e", "d">>
S_false == <<"f", "a", "l", "s", "e">>
S_disabled == <<"d", "i", "s", "a", "b", "l", "e", "d">>
S_stream == <<"s", "t", "r", "e", "a", "m">>
S_follow == <<"f", "o", "l", "l", "o", "w">>
S_status == <<"s", "t", "a", "t", "u", "s">>
S_playing == <<"p", "l", "a", "y", "i", "n", "g">>
S_paused == <<"p", "a", "u", "s", "e", "d">>
S_stopped == <<"s", "t", "o", "p", "p", "e", "d">>
S_is_paused == <<"i", "s", "_", "p", "a", "u", "s", "e", "d">>
S_is_playing == <<"i", "s", "_", "p", "l", "a", "y", "i", "n", "g">>
S_is_started == <<"i", "s", "_", "s", "t", "a", "r", "t", "e", "d">>
S_is_stopped == <<"i", "s", "_", "s", "t", "o", "p", "p", "e", "d">>
format_contains == << <<"i", "f", "=", "f", "o", "l", "l", "o", "w">>, <<"i", "f", "=", "!", "f", "o", "l", "l", "o", "w">>, <<"{", "f", "o", "l", "l", "o", "w", "}">> >>

(***************************************************************************)
(* str methods.                                                            *)
(***************************************************************************)
Digits == <<"0", "1", "2", "3", "4", "5", "6", "7", "8", "9">>
IsDigit(c) == \E i \in 1..10 : Digits[i] = c
DigitVal(c) == (CHOOSE i \in 1..10 : Digits[i] = c) - 1

\* needle in hay
Contains(hay, needle) ==
    \E i \in 1..(Len(hay) - Len(needle) + 1) :
        SubSeq(hay, i, i + Len(needle) - 1) = needle

\* the index of the first c in s, or 0
FirstIndex(s, c) ==
    IF \E i \in 1..Len(s) : s[i] = c
    THEN CHOOSE i \in 1..Len(s) : s[i] = c /\ \A j \in 1..(i - 1) : s[j] # c
    ELSE 0

\* s.partition(' '): <<head, separator, tail>>
partition(s) ==
    LET i == FirstIndex(s, " ")
    IN  IF i = 0 THEN <<s, <<>>, <<>>>>
        ELSE <<SubSeq(s, 1, i - 1), <<" ">>, SubSeq(s, i + 1, Len(s))>>

\* s.lstrip(c): every leading c removed
RECURSIVE lstrip(_, _)
lstrip(s, c) ==
    IF s # <<>> /\ Head(s) = c THEN lstrip(Tail(s), c) ELSE s

\* s.splitlines(): the lines of s, their terminators removed; a final
\* terminator opens no further line
RECURSIVE splitlines(_)
splitlines(s) ==
    IF s = <<>> THEN <<>>
    ELSE LET i == FirstIndex(s, "\n")
         IN  IF i = 0 THEN <<s>>
             ELSE <<SubSeq(s, 1, i - 1)>> \o splitlines(SubSeq(s, i + 1, Len(s)))

\* s.strip(): int() ignores surrounding white space
RECURSIVE rstrip(_, _)
rstrip(s, c) ==
    IF s # <<>> /\ s[Len(s)] = c THEN rstrip(SubSeq(s, 1, Len(s) - 1), c) ELSE s

\* '%d' % n
RECURSIVE DecNat(_)
DecNat(n) ==
    IF n < 10 THEN <<Digits[n + 1]>>
    ELSE DecNat(n \div 10) \o <<Digits[(n % 10) + 1]>>

Fmt_d(n) == IF n < 0 THEN <<"-">> \o DecNat(-n) ELSE DecNat(n)

\* '%02d' % n
Fmt_02d(n) ==
    LET d == Fmt_d(n)
    IN  IF Len(d) >= 2 THEN d
        ELSE IF n < 0 THEN d
        ELSE <<"0">> \o d

(***************************************************************************)
(* int(value)                                                              *)
(***************************************************************************)
RECURSIVE NatOf(_)
NatOf(s) ==
    IF s = <<>> THEN 0 ELSE 10 * NatOf(SubSeq(s, 1, Len(s) - 1)) + DigitVal(s[Len(s)])

AllDigits(s) == s # <<>> /\ \A i \in 1..Len(s) : IsDigit(s[i])

Unsigned(s) ==
    IF s # <<>> /\ Head(s) \in {"-", "+"} THEN Tail(s) ELSE s

\* whether int(value) returns; it raises ValueError otherwise
IntOk(value) ==
    CASE value.t = "int" -> TRUE
      [] value.t = "bool" -> TRUE
      [] value.t = "str" -> AllDigits(Unsigned(rstrip(lstrip(value.s, " "), " ")))
      [] OTHER -> FALSE

int(value) ==
    CASE value.t = "int" -> value.n
      [] value.t = "bool" -> IF value.b THEN 1 ELSE 0
      [] OTHER ->
            LET body == rstrip(lstrip(value.s, " "), " ")
            IN  IF body # <<>> /\ Head(body) = "-"
                THEN 0 - NatOf(Tail(body))
                ELSE NatOf(Unsigned(body))

(***************************************************************************)
(* Py3status._seconds_to_time                                              *)
(***************************************************************************)
\* a variant that does not pad the minutes: '%d:%d:%02d'
TimeFormatUnpadded(h, m, s) == Fmt_d(h) \o <<":">> \o Fmt_d(m) \o <<":">> \o Fmt_02d(s)

\* time = '%d:%02d:%02d' % (h, m, s)
TimeFormat(h, m, s) == Fmt_d(h) \o <<":">> \o Fmt_02d(m) \o <<":">> \o Fmt_02d(s)

\* time.lstrip('0').lstrip(':')
TimeStrip(time) == lstrip(lstrip(time, "0"), ":")

_seconds_to_time(value) ==
    LET total == int(value)
        m0 == total \div 60
        s == total % 60
        h == m0 \div 60
        m == m0 % 60
    IN  TimeStrip(TimeFormat(h, m, s))

(***************************************************************************)
(* dict                                                                    *)
(***************************************************************************)
EmptyDict == [k \in {} |-> PyNone]

\* d[k] = v
dict_set(d, k, v) == [x \in (DOMAIN d) \cup {k} |-> IF x = k THEN v ELSE d[x]]

\* d.get(k)
dict_get(d, k) == IF k \in DOMAIN d THEN d[k] ELSE PyNone

\* the orders in which the keys of d may be iterated
Orders(d) ==
    LET n == Cardinality(DOMAIN d)
    IN  {o \in [1..n -> DOMAIN d] : \A i, j \in 1..n : i # j => o[i] # o[j]}

(***************************************************************************)
(* Py3status._organize_data                                                *)
(***************************************************************************)
\* a variant that keeps the first value of a key
OrganizeLineFirstWins(temporary, line) ==
    LET p == partition(line)
        q == partition(p[3])
        key == IF p[1] \in {S_set, S_tag} THEN q[1] ELSE p[1]
        value == IF p[1] \in {S_set, S_tag} THEN q[3] ELSE p[3]
    IN  IF key \in DOMAIN temporary THEN temporary
        ELSE dict_set(temporary, key, PyStr(value))

\* one pass of the loop body: the entry of a `set` or `tag` line is stored
\* under its key, that of any other line under its category
OrganizeLine(temporary, line) ==
    LET p == partition(line)
        category == p[1]
        value == p[3]
    IN  IF category \in {S_set, S_tag}
        THEN LET q == partition(value)
             IN  dict_set(temporary, q[1], PyStr(q[3]))
        ELSE dict_set(temporary, category, PyStr(value))

RECURSIVE OrganizeLoop(_, _)
OrganizeLoop(temporary, lines) ==
    IF lines = <<>> THEN temporary
    ELSE OrganizeLoop(OrganizeLine(temporary, Head(lines)), Tail(lines))

_organize_data(data) == OrganizeLoop(EmptyDict, splitlines(data))

(***************************************************************************)
(* Py3status._manipulate_data, up to the secondary query.  The loop ends   *)
(* [exc |-> "ValueError"] when int() raises, else with the mapping.        *)
(***************************************************************************)
\* a variant that does not know `enabled`
NormalizeTrueOnly(value) ==
    IF value.s \in {S_true} THEN PyBool(TRUE)
    ELSE IF value.s \in {S_false, S_disabled} THEN PyBool(FALSE)
    ELSE value

\* the value stored under key by the if/elif chain
Normalize(value) ==
    IF value.s \in {S_true, S_enabled} THEN PyBool(TRUE)
    ELSE IF value.s \in {S_false, S_disabled} THEN PyBool(FALSE)
    ELSE value

RECURSIVE ManipulateLoop(_, _, _)
ManipulateLoop(temporary, data, order) ==
    IF order = <<>> THEN [exc |-> "none", temporary |-> temporary]
    ELSE LET key == Head(order)
             value == data[key]
         IN  IF key \in {S_duration, S_position}
             THEN IF ~IntOk(value)
                  THEN [exc |-> "ValueError", temporary |-> temporary]
                  ELSE ManipulateLoop(
                           dict_set(dict_set(temporary, key \o S_time,
                                             PyStr(_seconds_to_time(value))),
                                    key, value),
                           data, Tail(order))
             ELSE ManipulateLoop(dict_set(temporary, key, Normalize(value)),
                                 data, Tail(order))

\* stream to boolean
StreamToBoolean(temporary, data) ==
    IF S_stream \in DOMAIN data THEN dict_set(temporary, S_stream, PyBool(TRUE))
    ELSE temporary

\* the part of _manipulate_data before `if self.use_follow`
ManipulateCooked(data, order) ==
    LET r == ManipulateLoop(EmptyDict, data, order)
    IN  IF r.exc # "none" THEN r
        ELSE [exc |-> "none", temporary |-> StreamToBoolean(r.temporary, data)]

\* the part after the secondary query returned output
ManipulateRaw(temporary, output) ==
    dict_set(temporary, S_follow, PyBool(Contains(output, S_true)))

(***************************************************************************)
(* The environment: what `cmus-remote` may print, the host's colors, the   *)
(* configurations.                                                         *)
(***************************************************************************)
\* lines `cmus-remote --query` may print, well formed and not
Lines ==
    { <<"s", "t", "a", "t", "u", "s", " ", "p", "l", "a", "y", "i", "n", "g">>, <<"t", "a", "g", " ", "s", "t", "a", "t", "u", "s", " ", "p", "a", "u", "s", "e", "d">>, <<"s", "t", "a", "t", "u", "s", " ", "s", "t", "o", "p", "p", "e", "d">>,
      <<"d", "u", "r", "a", "t", "i", "o", "n", " ", "1", "7", "1">>, <<"d", "u", "r", "a", "t", "i", "o", "n", " ", "x">>, <<"p", "o", "s", "i", "t", "i", "o", "n">>,
      <<"s", "e", "t", " ", "r", "e", "p", "e", "a", "t", " ", "t", "r", "u", "e">>, <<"s", "e", "t", " ", "r", "e", "p", "e", "a", "t", " ", "f", "a", "l", "s", "e">>, <<"s", "e", "t", " ", "s", "o", "f", "t", "v", "o", "l", " ", "e", "n", "a", "b", "l", "e", "d">>,
      <<"s", "e", "t", " ", "f", "o", "l", "l", "o", "w", " ", "d", "i", "s", "a", "b", "l", "e", "d">>, <<"s", "t", "r", "e", "a", "m", " ", "f", "a", "l", "s", "e">>, <<"t", "a", "g", " ", "d", "u", "r", "a", "t", "i", "o", "n", "t", "i", "m", "e", " ", "x", " ", "y">>,
      <<"s", "e", "t", " ", "i", "s", "_", "p", "a", "u", "s", "e", "d", " ", "t", "r", "u", "e">>, <<>> }

\* the text of lines ls, each ended by a line feed
RECURSIVE JoinLines(_)
JoinLines(ls) ==
    IF ls = <<>> THEN <<>> ELSE Head(ls) \o <<"\n">> \o JoinLines(Tail(ls))

LineSeqs == UNION {[1..n -> Lines] : n \in 0..MaxLines}

Texts == {JoinLines(ls) : ls \in LineSeqs}

\* what `cmus-remote --raw "set follow"` may print
FollowOutputs == { <<"s", "e", "t", "t", "i", "n", "g", ":", " ", "'", "f", "o", "l", "l", "o", "w", "=", "t", "r", "u", "e", "'", "\n">>, <<"s", "e", "t", "t", "i", "n", "g", ":", " ", "'", "f", "o", "l", "l", "o", "w", "=", "f", "a", "l", "s", "e", "'", "\n">> }

\* self.py3.COLOR_GOOD, COLOR_DEGRADED, COLOR_BAD
COLOR_GOOD == PyStr(<<"#", "0", "0", "F", "F", "0", "0">>)
COLOR_DEGRADED == PyStr(<<"#", "F", "F", "F", "F", "0", "0">>)
COLOR_BAD == PyStr(<<"#", "F", "F", "0", "0", "0", "0">>)

\* self.py3.COLOR_PLAYING, COLOR_PAUSED, COLOR_STOPPED: unset, or set by the user
ColorOverrides ==
    { [COLOR_PLAYING |-> PyNone, COLOR_PAUSED |-> PyNone, COLOR_STOPPED |-> PyNone],
      [COLOR_PLAYING |-> PyStr(<<"#", "0", "0", "0", "0", "F", "1">>), COLOR_PAUSED |-> PyStr(<<"#", "0", "0", "0", "0", "F", "2">>),
       COLOR_STOPPED |-> PyStr(<<"#", "0", "0", "0", "0", "F", "3">>)] }

\* values of the configuration parameter `format`
Formats == { <<"[", "{", "a", "r", "t", "i", "s", "t", "}", " ", "-", " ", "{", "t", "i", "t", "l", "e", "}", "]">>, <<"{", "t", "i", "t", "l", "e", "}", " ", "{", "f", "o", "l", "l", "o", "w", "}">>,
             <<"[", "\\", "?", "i", "f", "=", "f", "o", "l", "l", "o", "w", " ", "F", "]">>, <<"[", "\\", "?", "i", "f", "=", "!", "f", "o", "l", "l", "o", "w", " ", "N", "]">> }

cache_timeout == 5
sleep_timeout == 20

\* None, as the value of a button binding
NoButton == 0

\* the ten bindings in the order on_click compares them
ButtonNames ==
    <<"button_pause", "button_stop", "button_next", "button_previous",
      "button_repeat", "button_shuffle", "button_seek_backward",
      "button_seek_forward", "button_volume_down", "button_volume_up">>

\* the class attributes
DefaultButtons ==
    [button_pause |-> 1, button_stop |-> 3, button_next |-> NoButton,
     button_previous |-> NoButton, button_repeat |-> NoButton,
     button_shuffle |-> NoButton, button_seek_backward |-> NoButton,
     button_seek_forward |-> NoButton, button_volume_down |-> NoButton,
     button_volume_up |-> NoButton]

\* every setting of the ten bindings
AllButtons == [{ButtonNames[i] : i \in 1..10} -> {NoButton} \cup (1..MaxButton)]

\* the host's py3.time_in and py3.safe_format: the request handed to the host
time_in(seconds) == [time_in |-> seconds]
safe_format(format, params) == [format |-> format, params |-> params]

(***************************************************************************)
(* The state.                                                              *)
(***************************************************************************)
VARIABLES
    phase,      \* "new": constructed; "ready": post_config_hook returned; "failed": it raised
    cfg,        \* the configuration: format, the button bindings, the host's color overrides
    self,       \* the attributes post_config_hook sets
    running,    \* whether the cmus player process is running
    pc,         \* "idle": no invocation; "follow": cmus() waits for its secondary
                \* query; "done": the invocation ended and the host has its outcome
    loc,        \* locals of the invocation: the query's output, the parsed and the
                \* transformed data, the clicked button
    ret,        \* how the latest invocation ended: returned a value or raised
    calls,      \* the cmus-remote commands the latest invocation ran, in order
    prevented,  \* how many times the latest invocation called py3.prevent_refresh
    primary,    \* the outcome of the latest cmus()'s primary query
    absent,     \* whether a query of the latest invocation found the player not running
    probe       \* a direct call of _seconds_to_time: its argument and what it returned

vars == <<phase, cfg, self, running, pc, loc, ret, calls, prevented, primary, absent, probe>>

NoLocals == [raw |-> <<>>, data |-> EmptyDict, temporary |-> EmptyDict, button |-> 0]
NoResult ==
    [cached_until |-> time_in(0), color |-> PyNone,
     full_text |-> safe_format(<<>>, EmptyDict)]
NoProbe == [value |-> PyNone, called |-> FALSE, time |-> <<>>]
Returned(value) == [kind |-> "returned", exc |-> "none", value |-> value]
ReturnedNone == [kind |-> "None", exc |-> "none", value |-> NoResult]
Raised(exc) == [kind |-> "raised", exc |-> exc, value |-> NoResult]

Configs == [format : Formats, buttons : {DefaultButtons}, py3 : ColorOverrides]

Unconfigured ==
    [color_stopped |-> PyNone, color_paused |-> PyNone, color_playing |-> PyNone,
     use_follow |-> FALSE]

Init ==
    /\ phase = "new"
    /\ cfg \in Configs
    /\ self = Unconfigured
    /\ running \in BOOLEAN
    /\ pc = "idle"
    /\ loc = NoLocals
    /\ ret = ReturnedNone
    /\ calls = <<>>
    /\ prevented = 0
    /\ primary = "none"
    /\ absent = FALSE
    /\ probe = NoProbe

(***************************************************************************)
(* Py3status.post_config_hook                                              *)
(***************************************************************************)
color_stopped_of(py3) == PyOr(py3.COLOR_STOPPED, COLOR_BAD)
\* a variant that falls back on COLOR_BAD
color_paused_bad(py3) == PyOr(py3.COLOR_PAUSED, COLOR_BAD)
color_paused_of(py3) == PyOr(py3.COLOR_PAUSED, COLOR_DEGRADED)
color_playing_of(py3) == PyOr(py3.COLOR_PLAYING, COLOR_GOOD)

\* a variant that looks for the first pattern only
use_follow_first_only(format) == Contains(format, format_contains[1])

use_follow_of(format) ==
    \E i \in 1..Len(format_contains) : Contains(format, format_contains[i])

post_config_hook ==
    /\ phase = "new"
    /\ \E installed \in BOOLEAN :
          IF installed
          THEN /\ phase' = "ready"
               /\ self' = [color_stopped |-> color_stopped_of(cfg.py3),
                           color_paused |-> color_paused_of(cfg.py3),
                           color_playing |-> color_playing_of(cfg.py3),
                           use_follow |-> use_follow_of(cfg.format)]
               /\ ret' = ReturnedNone
          ELSE /\ phase' = "failed"
               /\ ret' = Raised("Exception")
               /\ UNCHANGED self
    /\ UNCHANGED <<cfg, running, pc, loc, calls, prevented, primary, absent, probe>>

(***************************************************************************)
(* Py3status.cmus                                                          *)
(***************************************************************************)
StateKeys == {S_is_paused, S_is_playing, S_is_started, S_is_stopped}

\* dict(is_paused=..., is_playing=..., is_started=..., is_stopped=..., **data)
Params(is_paused, is_playing, is_started, is_stopped, data) ==
    [k \in StateKeys \cup DOMAIN data |->
        CASE k = S_is_paused -> is_paused
          [] k = S_is_playing -> is_playing
          [] k = S_is_started -> is_started
          [] k = S_is_stopped -> is_stopped
          [] OTHER -> data[k]]

\* a variant that starts from the active interval
cached_until_active == cache_timeout

\* cached_until = self.sleep_timeout
cached_until_initial == sleep_timeout

\* a variant that starts the three flags at False
flag_initial_false == PyBool(FALSE)

\* is_paused = is_playing = is_stopped = None
flag_initial == PyNone

\* what cmus() does from `status = data.get('status')` (when started) on
cmus_return(is_started, data) ==
    LET status == IF is_started THEN dict_get(data, S_status) ELSE PyNone
        playing == is_started /\ status = PyStr(S_playing)
        paused == is_started /\ ~playing /\ status = PyStr(S_paused)
        stopped == is_started /\ ~playing /\ ~paused /\ status = PyStr(S_stopped)
        color == CASE playing -> self.color_playing
                   [] paused -> self.color_paused
                   [] stopped -> self.color_stopped
                   [] OTHER -> COLOR_BAD
        cached_until == IF is_started THEN cache_timeout ELSE cached_until_initial
    IN  IF (DOMAIN data) \cap StateKeys # {}
        THEN Raised("TypeError")
        ELSE Returned(
                 [cached_until |-> time_in(cached_until),
                  color |-> color,
                  full_text |->
                      safe_format(cfg.format,
                          Params(IF paused THEN PyBool(TRUE) ELSE flag_initial,
                                 IF playing THEN PyBool(TRUE) ELSE flag_initial,
                                 PyBool(is_started),
                                 IF stopped THEN PyBool(TRUE) ELSE flag_initial,
                                 data))])

\* _get_cmus_data when command_output raises: is_started = False, data = {}
cmus_failed ==
    /\ phase = "ready"
    /\ pc = "idle"
    /\ \E reason \in (IF running THEN {"error"} ELSE {"not_running"}) :
          /\ primary' = reason
          /\ absent' = (reason = "not_running")
    /\ calls' = <<"cmus-remote --query">>
    /\ prevented' = 0
    /\ loc' = NoLocals
    /\ ret' = cmus_return(FALSE, EmptyDict)
    /\ pc' = "done"
    /\ UNCHANGED <<phase, cfg, self, running, probe>>

\* _get_cmus_data when command_output returns, _organize_data, and
\* _manipulate_data up to its secondary query
cmus_started ==
    /\ phase = "ready"
    /\ pc = "idle"
    /\ running
    /\ \E output \in Texts :
          LET data == _organize_data(output)
          IN  \E order \in Orders(data) :
                 LET r == ManipulateCooked(data, order)
                 IN  /\ loc' = [raw |-> output, data |-> data,
                                 temporary |-> IF r.exc # "none" THEN EmptyDict
                                               ELSE r.temporary,
                                 button |-> 0]
                     /\ IF r.exc # "none"
                        THEN ret' = Raised(r.exc) /\ pc' = "done"
                        ELSE IF self.use_follow
                        THEN ret' = ReturnedNone /\ pc' = "follow"
                        ELSE ret' = cmus_return(TRUE, r.temporary) /\ pc' = "done"
    /\ primary' = "ok"
    /\ absent' = FALSE
    /\ calls' = <<"cmus-remote --query">>
    /\ prevented' = 0
    /\ UNCHANGED <<phase, cfg, self, running, probe>>

\* the secondary query returns its output
cmus_follow ==
    /\ pc = "follow"
    /\ running
    /\ \E output \in FollowOutputs :
          LET temporary == ManipulateRaw(loc.temporary, output)
          IN  /\ loc' = [loc EXCEPT !.temporary = temporary]
              /\ ret' = cmus_return(TRUE, temporary)
    /\ pc' = "done"
    /\ calls' = Append(calls, "cmus-remote --raw set follow")
    /\ UNCHANGED <<phase, cfg, self, running, prevented, primary, absent, probe>>

\* the secondary query raises: nothing in _manipulate_data or cmus catches it
cmus_follow_failed ==
    /\ pc = "follow"
    /\ \E reason \in (IF running THEN {"error"} ELSE {"not_running"}) :
          absent' = (reason = "not_running")
    /\ ret' = Raised("CommandError")
    /\ pc' = "done"
    /\ calls' = Append(calls, "cmus-remote --raw set follow")
    /\ UNCHANGED <<phase, cfg, self, running, loc, prevented, primary, probe>>

(***************************************************************************)
(* Py3status.on_click                                                      *)
(***************************************************************************)
Run(command) == [run |-> <<command>>, prevent_refresh |-> 0]

\* the buttons the host reports
MouseButtons == 1..(MaxButton + 2)

\* a variant that compares button_next before button_stop
on_click_chain_next_first(b, button) ==
    IF button = b.button_pause THEN Run("cmus-remote --pause")
    ELSE IF button = b.button_next THEN Run("cmus-remote --next")
    ELSE IF button = b.button_stop THEN Run("cmus-remote --stop")
    ELSE IF button = b.button_previous THEN Run("cmus-remote --prev")
    ELSE IF button = b.button_repeat THEN Run("cmus-remote --repeat")
    ELSE IF button = b.button_shuffle THEN Run("cmus-remote --shuffle")
    ELSE IF button = b.button_seek_backward THEN Run("cmus-remote --seek -5")
    ELSE IF button = b.button_seek_forward THEN Run("cmus-remote --seek +5")
    ELSE IF button = b.button_volume_down THEN Run("cmus-remote --vol -5%")
    ELSE IF button = b.button_volume_up THEN Run("cmus-remote --vol +5%")
    ELSE [run |-> <<>>, prevent_refresh |-> 1]

on_click_chain(b, button) ==
    IF button = b.button_pause THEN Run("cmus-remote --pause")
    ELSE IF button = b.button_stop THEN Run("cmus-remote --stop")
    ELSE IF button = b.button_next THEN Run("cmus-remote --next")
    ELSE IF button = b.button_previous THEN Run("cmus-remote --prev")
    ELSE IF button = b.button_repeat THEN Run("cmus-remote --repeat")
    ELSE IF button = b.button_shuffle THEN Run("cmus-remote --shuffle")
    ELSE IF button = b.button_seek_backward THEN Run("cmus-remote --seek -5")
    ELSE IF button = b.button_seek_forward THEN Run("cmus-remote --seek +5")
    ELSE IF button = b.button_volume_down THEN Run("cmus-remote --vol -5%")
    ELSE IF button = b.button_volume_up THEN Run("cmus-remote --vol +5%")
    ELSE [run |-> <<>>, prevent_refresh |-> 1]

on_click ==
    /\ phase = "ready"
    /\ pc = "idle"
    /\ \E button \in MouseButtons :
          LET did == on_click_chain(cfg.buttons, button)
          IN  /\ calls' = did.run
              /\ prevented' = did.prevent_refresh
              /\ loc' = [NoLocals EXCEPT !.button = button]
    /\ ret' = ReturnedNone
    /\ pc' = "done"
    /\ primary' = "none"
    /\ absent' = FALSE
    /\ UNCHANGED <<phase, cfg, self, running, probe>>

(***************************************************************************)
(* The host: it calls cmus and on_click one at a time, and takes the       *)
(* outcome of one invocation before the next.                              *)
(***************************************************************************)
host_takes ==
    /\ pc = "done"
    /\ pc' = "idle"
    /\ loc' = NoLocals
    /\ ret' = ReturnedNone
    /\ calls' = <<>>
    /\ prevented' = 0
    /\ primary' = "none"
    /\ absent' = FALSE
    /\ UNCHANGED <<phase, cfg, self, running, probe>>

(***************************************************************************)
(* The player, a process of its own.                                       *)
(***************************************************************************)
player_start == ~running /\ running' = TRUE /\ UNCHANGED <<phase, cfg, self, pc, loc, ret, calls, prevented, primary, absent, probe>>

player_stop == running /\ running' = FALSE /\ UNCHANGED <<phase, cfg, self, pc, loc, ret, calls, prevented, primary, absent, probe>>

Next ==
    \/ post_config_hook
    \/ cmus_failed
    \/ cmus_started
    \/ cmus_follow
    \/ cmus_follow_failed
    \/ on_click
    \/ host_takes
    \/ player_start
    \/ player_stop

Spec == Init /\ [][Next]_vars

(***************************************************************************)
(* on_click alone, under every setting of the ten bindings.                *)
(***************************************************************************)
InitClick ==
    /\ phase = "ready"
    /\ cfg \in [format : {CHOOSE f \in Formats : ~use_follow_of(f)},
                buttons : AllButtons,
                py3 : {CHOOSE c \in ColorOverrides : c.COLOR_PLAYING = PyNone /\ c.COLOR_PAUSED = PyNone /\ c.COLOR_STOPPED = PyNone}]
    /\ self = [color_stopped |-> color_stopped_of(cfg.py3),
               color_paused |-> color_paused_of(cfg.py3),
               color_playing |-> color_playing_of(cfg.py3),
               use_follow |-> use_follow_of(cfg.format)]
    /\ running = TRUE
    /\ pc = "idle"
    /\ loc = NoLocals
    /\ ret = ReturnedNone
    /\ calls = <<>>
    /\ prevented = 0
    /\ primary = "none"
    /\ absent = FALSE
    /\ probe = NoProbe

NextClick ==
    \/ on_click
    \/ host_takes

SpecClick == InitClick /\ [][NextClick]_vars

(***************************************************************************)
(* _seconds_to_time alone, called with every integer 0..MaxSeconds.        *)
(***************************************************************************)
InitTime ==
    /\ phase = "ready"
    /\ cfg = CHOOSE c \in Configs : TRUE
    /\ self = Unconfigured
    /\ running = FALSE
    /\ pc = "idle"
    /\ loc = NoLocals
    /\ ret = ReturnedNone
    /\ calls = <<>>
    /\ prevented = 0
    /\ primary = "none"
    /\ absent = FALSE
    /\ \E v \in 0..MaxSeconds : probe = [value |-> PyInt(v), called |-> FALSE, time |-> <<>>]

call_seconds_to_time ==
    /\ ~probe.called
    /\ probe' = [probe EXCEPT !.called = TRUE, !.time = _seconds_to_time(probe.value)]
    /\ UNCHANGED <<phase, cfg, self, running, pc, loc, ret, calls, prevented, primary, absent>>

NextTime == call_seconds_to_time

SpecTime == InitTime /\ [][NextTime]_vars

(***************************************************************************)
(* What the properties below speak of.                                     *)
(***************************************************************************)
\* cmus() ended, by returning or by raising
PollEnded == pc = "done" /\ primary # "none"

\* cmus() returned a result
PollReturned == PollEnded /\ ret.kind = "returned"

\* the field bindings of the result
Fields == ret.value.full_text.params

True == PyBool(TRUE)
False == PyBool(FALSE)

\* the configured-or-default colors
ColorPlaying == IF cfg.py3.COLOR_PLAYING = PyNone THEN COLOR_GOOD ELSE cfg.py3.COLOR_PLAYING
ColorPaused == IF cfg.py3.COLOR_PAUSED = PyNone THEN COLOR_DEGRADED ELSE cfg.py3.COLOR_PAUSED
ColorStopped == IF cfg.py3.COLOR_STOPPED = PyNone THEN COLOR_BAD ELSE cfg.py3.COLOR_STOPPED

\* the playback states of a result, each with its color
NotStarted ==
    /\ Fields[S_is_started] = False
    /\ Fields[S_is_playing] # True /\ Fields[S_is_paused] # True /\ Fields[S_is_stopped] # True
    /\ ret.value.color = COLOR_BAD
StartedPlaying ==
    /\ Fields[S_is_started] = True
    /\ Fields[S_is_playing] = True /\ Fields[S_is_paused] # True /\ Fields[S_is_stopped] # True
    /\ ret.value.color = ColorPlaying
StartedPaused ==
    /\ Fields[S_is_started] = True
    /\ Fields[S_is_playing] # True /\ Fields[S_is_paused] = True /\ Fields[S_is_stopped] # True
    /\ ret.value.color = ColorPaused
StartedStopped ==
    /\ Fields[S_is_started] = True
    /\ Fields[S_is_playing] # True /\ Fields[S_is_paused] # True /\ Fields[S_is_stopped] = True
    /\ ret.value.color = ColorStopped
StartedOnly ==
    /\ Fields[S_is_started] = True
    /\ Fields[S_is_playing] # True /\ Fields[S_is_paused] # True /\ Fields[S_is_stopped] # True
    /\ ret.value.color = COLOR_BAD

\* how many of the given conditions hold
HowMany(conditions) == Cardinality({i \in DOMAIN conditions : conditions[i]})

\* the status the query reported, none when it reported none or failed
ReportedStatus == dict_get(loc.temporary, S_status)

(***************************************************************************)
(* C1 as stated: every result of cmus() shows exactly one of Not-Started,  *)
(* Started-Playing, Started-Paused, Started-Stopped, and has that state's  *)
(* color.                                                                  *)
(***************************************************************************)
C1_ExactlyOneOfFour ==
    PollReturned =>
        HowMany(<<NotStarted, StartedPlaying, StartedPaused, StartedStopped>>) = 1

(***************************************************************************)
(* C1 amended: every result of cmus() shows exactly one of five states:    *)
(* the four of C1 and Started with none of playing, paused, stopped, which *)
(* is the state of a successful query whose status is none of `playing`,   *)
(* `paused`, `stopped` (or missing); its color is COLOR_BAD.  The state is *)
(* the one the query's outcome and the reported status name.               *)
(***************************************************************************)
C1_ExactlyOneOfFive ==
    PollReturned =>
        /\ HowMany(<<NotStarted, StartedPlaying, StartedPaused, StartedStopped,
                     StartedOnly>>) = 1
        /\ NotStarted <=> primary # "ok"
        /\ StartedPlaying <=> (primary = "ok" /\ ReportedStatus = PyStr(S_playing))
        /\ StartedPaused <=> (primary = "ok" /\ ReportedStatus = PyStr(S_paused))
        /\ StartedStopped <=> (primary = "ok" /\ ReportedStatus = PyStr(S_stopped))

\* a result of a successful query without a status: started, nothing more
C1_Witness ==
    /\ PollReturned
    /\ primary = "ok"
    /\ S_status \notin DOMAIN loc.data
    /\ StartedOnly

(***************************************************************************)
(* C2: in the field bindings of every result of cmus(), at most one of     *)
(* is_playing, is_paused, is_stopped is true, and when is_started is false *)
(* all three are None.                                                     *)
(***************************************************************************)
C2_FlagsConsistent ==
    PollReturned =>
        /\ HowMany(<<Fields[S_is_playing] = True, Fields[S_is_paused] = True,
                     Fields[S_is_stopped] = True>>) <= 1
        /\ Fields[S_is_started] = False =>
              /\ Fields[S_is_playing] = PyNone
              /\ Fields[S_is_paused] = PyNone
              /\ Fields[S_is_stopped] = PyNone

\* a result of a failed query, its three flags unset
C2_Witness ==
    /\ PollReturned
    /\ Fields[S_is_started] = False
    /\ Fields[S_is_playing] = PyNone
    /\ Fields[S_is_paused] = PyNone
    /\ Fields[S_is_stopped] = PyNone

(***************************************************************************)
(* C3: when the primary query fails, whatever the reason, cmus() returns a *)
(* result with is_started false, color COLOR_BAD and cached_until =        *)
(* time_in(sleep_timeout), whose field bindings are the four state         *)
(* booleans only; it parsed and transformed nothing and ran no secondary   *)
(* query.                                                                  *)
(***************************************************************************)
C3_FailedQueryFolded ==
    (PollEnded /\ primary \in {"error", "not_running"}) =>
        /\ ret.kind = "returned"
        /\ Fields[S_is_started] = False
        /\ ret.value.color = COLOR_BAD
        /\ ret.value.cached_until = time_in(sleep_timeout)
        /\ DOMAIN Fields = StateKeys
        /\ loc.data = EmptyDict /\ loc.temporary = EmptyDict
        /\ calls = <<"cmus-remote --query">>

\* the query failed although the player runs
C3_Witness ==
    /\ PollEnded
    /\ primary = "error"
    /\ ret.kind = "returned"

(***************************************************************************)
(* C4: an invocation of cmus() in which a query found the player not       *)
(* running returns a result, which reports Not-Started and expires after   *)
(* the inactive interval; it does not raise.                               *)
(***************************************************************************)
C4_AbsentPlayerIsNoError ==
    (PollEnded /\ absent) =>
        /\ ret.kind = "returned"
        /\ Fields[S_is_started] = False
        /\ ret.value.cached_until = time_in(sleep_timeout)

(***************************************************************************)
(* C5: whatever text a successful primary query returned, cmus() does not  *)
(* raise on it, and its field bindings are the four state booleans         *)
(* together with every transformed snapshot field.  (A secondary query     *)
(* that fails is C4's matter and is left out here.)                        *)
(***************************************************************************)
C5_AnyTextTolerated ==
    (PollEnded /\ primary = "ok" /\ ret.exc # "CommandError") =>
        /\ ret.kind = "returned"
        /\ DOMAIN Fields = StateKeys \cup DOMAIN loc.temporary
        /\ \A k \in DOMAIN loc.temporary : Fields[k] = loc.temporary[k]

(***************************************************************************)
(* C8.  The mapping _manipulate_data returned, loc.temporary, against the  *)
(* parsed mapping it was given, loc.data.                                  *)
(***************************************************************************)
\* _manipulate_data returned: int() did not raise, nor the secondary query
ManipulateReturned ==
    PollEnded /\ primary = "ok" /\ ret.exc \notin {"ValueError", "CommandError"}

\* the boolean a token names, the value itself when it names none
TokenRule(value) ==
    CASE value = PyStr(S_true) -> True
      [] value = PyStr(S_enabled) -> True
      [] value = PyStr(S_false) -> False
      [] value = PyStr(S_disabled) -> False
      [] OTHER -> value

TimedKeys == {S_duration, S_position}

\* duration, position: kept unmodified, the derived <key>time entry beside them
KeptAndAugmented(k) ==
    /\ loc.temporary[k] = loc.data[k]
    /\ (k \o S_time) \in DOMAIN loc.temporary
    /\ loc.temporary[k \o S_time] = PyStr(_seconds_to_time(loc.data[k]))

\* a key named like the derived entry of a reported duration or position
ShadowsDerived(k) ==
    \E t \in TimedKeys : k = t \o S_time /\ t \in DOMAIN loc.data

\* C8 as stated: the token rule for every key but duration, position
\* (kept, time-augmented) and stream (true).  It is stated here of the
\* mappings in which no key is named like a derived entry: of the others
\* the statement asks two values of one entry.
C8_OnlyTimedAndStream ==
    (ManipulateReturned /\ \A k \in DOMAIN loc.data : ~ShadowsDerived(k)) =>
        \A k \in DOMAIN loc.data :
            CASE k \in TimedKeys -> KeptAndAugmented(k)
              [] k = S_stream -> loc.temporary[k] = True
              [] OTHER -> loc.temporary[k] = TokenRule(loc.data[k])

(***************************************************************************)
(* C8 amended: for every parsed mapping that _manipulate_data transforms   *)
(* (it returns none when int() raises on a duration or position, nor when  *)
(* the secondary query fails), the token rule holds for every key, the     *)
(* exceptions being duration and position (kept unmodified, and a          *)
(* <key>time entry is present, the derived time unless the mapping itself  *)
(* has a key of that name), stream (true whenever present), follow when    *)
(* use_follow is set (the boolean of the secondary query, whatever the     *)
(* primary query reported), and a key named durationtime or positiontime   *)
(* reported together with duration or position (its own value by the token *)
(* rule, or the derived time).  The returned mapping has no other key.     *)
(***************************************************************************)
C8_TokenRuleAndItsExceptions ==
    ManipulateReturned =>
        /\ \A k \in DOMAIN loc.data :
              CASE k \in TimedKeys ->
                      /\ loc.temporary[k] = loc.data[k]
                      /\ (k \o S_time) \in DOMAIN loc.temporary
                      /\ (k \o S_time) \notin DOMAIN loc.data => KeptAndAugmented(k)
                [] k = S_stream -> loc.temporary[k] = True
                [] k = S_follow /\ self.use_follow -> loc.temporary[k] \in {True, False}
                [] ShadowsDerived(k) ->
                      \/ loc.temporary[k] = TokenRule(loc.data[k])
                      \/ \E t \in TimedKeys :
                            /\ k = t \o S_time
                            /\ t \in DOMAIN loc.data
                            /\ loc.temporary[k] = PyStr(_seconds_to_time(loc.data[t]))
                [] OTHER -> loc.temporary[k] = TokenRule(loc.data[k])
        /\ DOMAIN loc.temporary =
              DOMAIN loc.data
                \cup {t \o S_time : t \in TimedKeys \cap DOMAIN loc.data}
                \cup (IF self.use_follow THEN {S_follow} ELSE {})
        /\ (self.use_follow => loc.temporary[S_follow] \in {True, False})

\* the primary query reported follow as disabled, the secondary as true
C8_Witness ==
    /\ ManipulateReturned
    /\ self.use_follow
    /\ dict_get(loc.data, S_follow) = PyStr(S_disabled)
    /\ loc.temporary[S_follow] = True
    /\ dict_get(loc.data, <<"s", "o", "f", "t", "v", "o", "l">>) = PyStr(S_enabled)
    /\ loc.temporary[<<"s", "o", "f", "t", "v", "o", "l">>] = True

(***************************************************************************)
(* C9.  The mapping _organize_data returned, loc.data, against the lines   *)
(* of the text it was given, loc.raw.                                      *)
(***************************************************************************)
\* the length of the first word of s: what precedes its first space
WordLen(s) ==
    CHOOSE n \in 0..Len(s) :
        /\ \A i \in 1..n : s[i] # " "
        /\ n = Len(s) \/ s[n + 1] = " "

FirstWord(s) == SubSeq(s, 1, WordLen(s))
AfterFirstWord(s) == SubSeq(s, WordLen(s) + 2, Len(s))

\* the key a line names and the value it gives it
KeyOf(line) ==
    IF FirstWord(line) \in {S_set, S_tag} THEN FirstWord(AfterFirstWord(line))
    ELSE FirstWord(line)
ValueOf(line) ==
    IF FirstWord(line) \in {S_set, S_tag} THEN AfterFirstWord(AfterFirstWord(line))
    ELSE AfterFirstWord(line)

\* the lines of the text of the latest query
RawLines == splitlines(loc.raw)

\* C9: one entry per distinct key, set, tag and bare keys alike, holding
\* the value of the last line that names the key; the value of a line
\* with no space is empty
C9_LastLineWins ==
    (pc \in {"follow", "done"} /\ primary = "ok") =>
        LET lines == RawLines
            n == Len(lines)
            key == [i \in 1..n |-> KeyOf(lines[i])]
            value == [i \in 1..n |-> ValueOf(lines[i])]
        IN  /\ DOMAIN loc.data = {key[i] : i \in 1..n}
            /\ \A i \in 1..n :
                  (\A j \in (i + 1)..n : key[j] # key[i])
                      => loc.data[key[i]] = PyStr(value[i])
            /\ \A i \in 1..n :
                  (/\ \A c \in 1..Len(lines[i]) : lines[i][c] # " "
                   /\ \A j \in (i + 1)..n : key[j] # key[i])
                      => loc.data[key[i]] = PyStr(<<>>)

\* a bare line and a tag line name the same key, the later one wins
C9_Witness ==
    /\ pc = "done"
    /\ primary = "ok"
    /\ loc.raw = JoinLines(<< <<"s", "t", "a", "t", "u", "s", " ", "p", "l", "a", "y", "i", "n", "g">>, <<"t", "a", "g", " ", "s", "t", "a", "t", "u", "s", " ", "p", "a", "u", "s", "e", "d">> >>)
    /\ loc.data[S_status] = PyStr(S_paused)

(***************************************************************************)
(* C10: an invocation runs at most two cmus-remote commands; cmus() runs   *)
(* `cmus-remote --query` first and after it at most the secondary query,   *)
(* that only if the primary query succeeded and use_follow is set;         *)
(* use_follow says whether format contains `if=follow`, `if=!follow` or    *)
(* `{follow}`; no invocation of cmus() or on_click changes use_follow or   *)
(* the configuration.                                                      *)
(***************************************************************************)
\* the calls of the latest invocation, and the flag against the format
C10_Calls ==
    /\ Len(calls) <= 2
    /\ primary # "none" =>
          /\ Len(calls) >= 1
          /\ calls[1] = "cmus-remote --query"
          /\ Len(calls) = 2 =>
                /\ calls[2] = "cmus-remote --raw set follow"
                /\ primary = "ok"
                /\ self.use_follow
    /\ (primary = "none" /\ pc = "done") =>
          /\ Len(calls) <= 1
          /\ \A i \in 1..Len(calls) :
                calls[i] \notin {"cmus-remote --query", "cmus-remote --raw set follow"}
    /\ phase = "ready" =>
          self.use_follow =
              \/ Contains(cfg.format, <<"i", "f", "=", "f", "o", "l", "l", "o", "w">>)
              \/ Contains(cfg.format, <<"i", "f", "=", "!", "f", "o", "l", "l", "o", "w">>)
              \/ Contains(cfg.format, <<"{", "f", "o", "l", "l", "o", "w", "}">>)

\* C10: the calls of every invocation are as above in every state, and
\* once post_config_hook returned no step changes the configuration or
\* what it computed from it
C10_AtMostTwoCalls ==
    /\ []C10_Calls
    /\ [][phase = "ready" => (cfg' = cfg /\ self' = self)]_vars

\* cmus() ran both queries
C10_Witness ==
    /\ PollEnded
    /\ calls = <<"cmus-remote --query", "cmus-remote --raw set follow">>
    /\ ret.kind = "returned"

(***************************************************************************)
(* C6.  _seconds_to_time(v) for the integers v of SpecTime.                *)
(***************************************************************************)
\* the number two digits write
TwoDigits(a, b) == 10 * DigitVal(a) + DigitVal(b)

\* time is MM:SS, minutes and seconds of v
IsMinutesSeconds(time, v) ==
    /\ Len(time) = 5
    /\ IsDigit(time[1]) /\ IsDigit(time[2]) /\ time[3] = ":"
    /\ IsDigit(time[4]) /\ IsDigit(time[5])
    /\ TwoDigits(time[1], time[2]) = v \div 60
    /\ TwoDigits(time[4], time[5]) = v % 60

\* time is H:MM:SS, hours, minutes and seconds of v, no leading zero on H
IsHoursMinutesSeconds(time, v) ==
    /\ Len(time) >= 7
    /\ LET n == Len(time)
           hours == SubSeq(time, 1, n - 6)
       IN  /\ AllDigits(hours) /\ hours[1] # "0"
           /\ NatOf(hours) = v \div 3600
           /\ time[n - 5] = ":" /\ time[n - 2] = ":"
           /\ IsDigit(time[n - 4]) /\ IsDigit(time[n - 3])
           /\ IsDigit(time[n - 1]) /\ IsDigit(time[n])
           /\ TwoDigits(time[n - 4], time[n - 3]) = (v \div 60) % 60
           /\ TwoDigits(time[n - 1], time[n]) = v % 60

C6_Shape ==
    IF probe.value.n < 3600
    THEN IsMinutesSeconds(probe.time, probe.value.n)
    ELSE IsHoursMinutesSeconds(probe.time, probe.value.n)

\* C6 as stated: MM:SS below an hour and H:MM:SS from an hour on, two
\* digits for minutes and seconds, no leading zero on the hours; 171 gives
\* 2:51, 3661 gives 1:01:01, 0 gives 0:00
C6_AsStated ==
    probe.called =>
        /\ C6_Shape
        /\ probe.value.n = 171 => probe.time = <<"2", ":", "5", "1">>
        /\ probe.value.n = 3661 => probe.time = <<"1", ":", "0", "1", ":", "0", "1">>
        /\ probe.value.n = 0 => probe.time = <<"0", ":", "0", "0">>

\* C6 amended: the same shapes; 171 gives 02:51, 3661 gives 1:01:01,
\* 0 gives 00:00
C6_PaddedMinutes ==
    probe.called =>
        /\ C6_Shape
        /\ probe.value.n = 171 => probe.time = <<"0", "2", ":", "5", "1">>
        /\ probe.value.n = 3661 => probe.time = <<"1", ":", "0", "1", ":", "0", "1">>
        /\ probe.value.n = 0 => probe.time = <<"0", "0", ":", "0", "0">>

\* the call with 171 returned
C6_Witness ==
    /\ probe.called
    /\ probe.value.n = 171
    /\ probe.time = <<"0", "2", ":", "5", "1">>

(***************************************************************************)
(* C7.  on_click under every setting of the bindings (SpecClick).          *)
(***************************************************************************)
\* the command of each binding, in the order of ButtonNames
Commands ==
    <<"cmus-remote --pause", "cmus-remote --stop", "cmus-remote --next",
      "cmus-remote --prev", "cmus-remote --repeat", "cmus-remote --shuffle",
      "cmus-remote --seek -5", "cmus-remote --seek +5", "cmus-remote --vol -5%",
      "cmus-remote --vol +5%">>

\* the bindings equal to the clicked button
Hits == {i \in 1..10 : cfg.buttons[ButtonNames[i]] = loc.button}

\* C7: a click runs exactly one command, that of the first binding equal
\* to the button, and does not call prevent_refresh nor query; when no
\* binding equals the button it runs no command and calls prevent_refresh
\* once
C7_FirstBindingWins ==
    (pc = "done" /\ loc.button # 0) =>
        IF Hits = {}
        THEN calls = <<>> /\ prevented = 1
        ELSE /\ \E i \in Hits : (\A j \in Hits : i <= j) /\ calls = <<Commands[i]>>
             /\ prevented = 0

\* stop and next are bound to the clicked button, pause is not
C7_Witness ==
    /\ pc = "done"
    /\ loc.button # 0
    /\ cfg.buttons.button_pause # loc.button
    /\ cfg.buttons.button_stop = loc.button
    /\ cfg.buttons.button_next = loc.button
    /\ calls = <<"cmus-remote --stop">>
    /\ prevented = 0

=============================================================================
